---- MODULE Spec2Model ----
(***************************************************************************)
(* Model of the remote-shell server (src/server/server.go): the accept     *)
(* loop, the dispatch loop, one session handler per connection, the        *)
(* subprocess and output-copy task of every command, and Start/Stop.       *)
(* Subprocesses and timers are the environment.  Time is abstracted: a     *)
(* timer that is armed may fire at any later step.  Stop is called once,   *)
(* as in main (RestopSpec adds a caller that invokes it again); the        *)
(* goroutines are followed past its return (main exits right after it,     *)
(* which ends them all).  The clients of Spec and SingleSpec are any       *)
(* clients; ClientSpec and MarkerSpec put the client program of this       *)
(* repository (src/client/client.go) on the one connection.                *)
(***************************************************************************)
EXTENDS Naturals, Sequences, FiniteSets, TLC

\* ------------------------------------------------------------------ bounds
MaxConns    == 2   \* Spec: client connections that may dial the listener
MaxLines    == 2   \* Spec: lines the clients may send in total
SingleLines == 2   \* SingleSpec: lines its one client may send
ClientLines == 2   \* ClientSpec: lines the user of the client program may type

Conns == 1..MaxConns

\* ------------------------------------------------------- protocol constants
ExitKeyword   == "exit"
EOFMarker     == "\nEOF\n"
ErrEOFMarker  == "EOF\n"
ErrPrefix     == "Error executing command:"
TimeoutNotice == "Client session duration exceeded. Disconnecting...\n"
TerminateMark == "TERMINATE\n"

\* The command lines a client may send besides the exit keyword, with what
\* the subprocess does for each: what it writes to stdout and its exit
\* status.  The subprocess has no terminal on stdin, so tty prints "not a
\* tty" and exits with status 1.
Commands == {"pwd", "tty"}
Lines    == Commands \cup {ExitKeyword}

\* A command whose output is itself a line EOF: any executable on the
\* server's PATH that prints that line and exits with status 0.
MarkerCommands == {"print-eof"}

Stdout(cmd) ==
  CASE cmd = "pwd" -> "/\n"
    [] cmd = "tty" -> "not a tty\n"
    [] cmd = "print-eof" -> "EOF\n"

ExitStatus(cmd) ==
  CASE cmd = "pwd" -> 0
    [] cmd = "tty" -> 1
    [] cmd = "print-eof" -> 0

\* err.Error() of the error executeCommand returns for a non-zero exit
ExitErrorText(cmd) ==
  IF ExitStatus(cmd) = 1
    THEN "Command exited with status: exit status 1"
    ELSE "Command exited with status: exit status 2"

\* err.Error() of a failed ulimitCmd.Start()
StartErrorText == "fork/exec /bin/sh: resource temporarily unavailable"

VARIABLES
  mainPc,       \* main: "new", "running", "stop_listener", "stop_wait", "returned"
  shutdown,     \* s.shutdown has been closed
  listenerOpen, \* s.listener has not been closed
  wg,           \* s.wg counter
  done,         \* Stop's done channel has been closed
  stopVia,      \* which select case made Stop return: "none", "done", "timeout"
  acceptPc,     \* AcceptConnections: "idle", "select", "accept", "send", "done"
  acceptConn,   \* the conn AcceptConnections holds (0: none)
  dispatchPc,   \* handleConnections: "idle", "select", "done"
  cstate,       \* per connection: "idle", "dialed", "accepted", "session", "closed"
  sentLog,      \* per connection: the lines the client has sent, in order
  nread,        \* per connection: how many of them the scanner has returned
  hpc,          \* per connection: position of handleConnection
  fired,        \* per connection: ctx.Done() is closed (deadline elapsed)
  err,          \* per connection: err.Error() of the error being reported
  inv,          \* per connection: the command invocations, in start order
  out,          \* per connection: the writes accepted by conn, in order
  closeCount,   \* per connection: calls of conn.Close()
  ended,        \* per connection: which return handleConnection took
  cl            \* the client program (src/client/client.go) on connection 1

vars == <<mainPc, shutdown, listenerOpen, wg, done, stopVia, acceptPc, acceptConn,
          dispatchPc, cstate, sentLog, nread, hpc, fired, err, inv, out,
          closeCount, ended, cl>>

serverVars  == <<mainPc, shutdown, listenerOpen, wg, done, stopVia>>
loopVars    == <<acceptPc, acceptConn, dispatchPc>>
clientVars  == <<sentLog, cl>>

\* ------------------------------------------------------------------ helpers
RECURSIVE SumLen(_, _)
SumLen(f, n) == IF n = 0 THEN 0 ELSE Len(f[n]) + SumLen(f, n - 1)
\* the lines sent so far on the connections 1..n
Sent(n) == SumLen(sentLog, n)
HasLine(c)  == nread[c] < Len(sentLog[c])
NextLine(c) == sentLog[c][nread[c] + 1]
CurNo(c)    == Len(inv[c])

\* one write on conn: accepted while the handle is open, an error after Close
ConnWrite(c, k, who, data) ==
  IF closeCount[c] = 0
    THEN out' = [out EXCEPT ![c] = Append(@, [k |-> k, w |-> who, data |-> data])]
    ELSE out' = out

\* (mutant) the handler returns without closing conn
DeferredCloseMissing(c) ==
  /\ closeCount' = closeCount
  /\ cstate' = cstate

\* the deferred conn.Close() of handleConnection
DeferredClose(c) ==
  /\ closeCount' = [closeCount EXCEPT ![c] = @ + 1]
  /\ cstate' = [cstate EXCEPT ![c] = "closed"]

\* a return of handleConnection: the deferred calls run
Return(c, why) ==
  /\ hpc' = [hpc EXCEPT ![c] = "returned"]
  /\ ended' = [ended EXCEPT ![c] = why]
  /\ DeferredClose(c)

Init ==
  /\ mainPc = "new"
  /\ shutdown = FALSE
  /\ listenerOpen = TRUE
  /\ wg = 0
  /\ done = FALSE
  /\ stopVia = "none"
  /\ acceptPc = "idle"
  /\ acceptConn = 0
  /\ dispatchPc = "idle"
  /\ cstate = [c \in Conns |-> "idle"]
  /\ sentLog = [c \in Conns |-> << >>]
  /\ nread = [c \in Conns |-> 0]
  /\ hpc = [c \in Conns |-> "none"]
  /\ fired = [c \in Conns |-> FALSE]
  /\ err = [c \in Conns |-> ""]
  /\ inv = [c \in Conns |-> << >>]
  /\ out = [c \in Conns |-> << >>]
  /\ closeCount = [c \in Conns |-> 0]
  /\ ended = [c \in Conns |-> "none"]
  /\ cl = [pc |-> "prompt", pos |-> 0, exitCode |-> 0, shown |-> << >>]

\* ------------------------------------------------------------ Start / Stop
Start ==
  /\ mainPc = "new"
  /\ mainPc' = "running"
  /\ wg' = wg + 2
  /\ acceptPc' = "select"
  /\ dispatchPc' = "select"
  /\ UNCHANGED <<shutdown, listenerOpen, done, stopVia, acceptConn, cstate,
                 clientVars, nread, hpc, fired, err, inv, out, closeCount, ended>>

\* Stop, first statement: close(s.shutdown)
Stop_CloseShutdown ==
  /\ mainPc = "running"
  /\ shutdown' = TRUE
  /\ mainPc' = "stop_listener"
  /\ UNCHANGED <<listenerOpen, wg, done, stopVia, loopVars, cstate,
                 clientVars, nread, hpc, fired, err, inv, out, closeCount, ended>>

\* Stop, second statement: s.listener.Close(); the waiter goroutine is started
Stop_CloseListener ==
  /\ mainPc = "stop_listener"
  /\ listenerOpen' = FALSE
  /\ mainPc' = "stop_wait"
  /\ UNCHANGED <<shutdown, wg, done, stopVia, loopVars, cstate,
                 clientVars, nread, hpc, fired, err, inv, out, closeCount, ended>>

\* the waiter goroutine of Stop: s.wg.Wait() returns, close(done)
Stop_Waiter ==
  /\ mainPc \in {"stop_wait", "returned"}
  /\ wg = 0
  /\ ~done
  /\ done' = TRUE
  /\ UNCHANGED <<mainPc, shutdown, listenerOpen, wg, stopVia, loopVars, cstate,
                 clientVars, nread, hpc, fired, err, inv, out, closeCount,
                 ended>>

\* Stop's select, case <-done
Stop_ReturnDone ==
  /\ mainPc = "stop_wait"
  /\ done
  /\ mainPc' = "returned"
  /\ stopVia' = "done"
  /\ UNCHANGED <<shutdown, listenerOpen, wg, done, loopVars, cstate,
                 clientVars, nread, hpc, fired, err, inv, out, closeCount, ended>>

\* (mutant) Stop waits for done alone, with no grace timer
Stop_ReturnNoTimer ==
  /\ mainPc = "stop_wait"
  /\ done
  /\ mainPc' = "returned"
  /\ stopVia' = "timeout"
  /\ UNCHANGED <<shutdown, listenerOpen, wg, done, loopVars, cstate,
                 clientVars, nread, hpc, fired, err, inv, out, closeCount, ended>>

\* Stop's select, case <-time.After(time.Second)
Stop_ReturnTimeout ==
  /\ mainPc = "stop_wait"
  /\ mainPc' = "returned"
  /\ stopVia' = "timeout"
  /\ UNCHANGED <<shutdown, listenerOpen, wg, done, loopVars, cstate,
                 clientVars, nread, hpc, fired, err, inv, out, closeCount, ended>>

\* Stop invoked again by a caller of the Server after it has returned (main
\* itself calls it once): its first statement is close(s.shutdown) with
\* nothing in front of it, and the close of a closed channel panics
Stop_Again ==
  /\ mainPc = "returned"
  /\ mainPc' = IF shutdown THEN "panicked" ELSE "stop_listener"
  /\ shutdown' = TRUE
  /\ UNCHANGED <<listenerOpen, wg, done, stopVia, loopVars, cstate,
                 clientVars, nread, hpc, fired, err, inv, out, closeCount, ended>>

\* ------------------------------------------------------ AcceptConnections
\* select: case <-s.shutdown: return (deferred s.wg.Done())
AcceptConnections_Shutdown ==
  /\ acceptPc = "select"
  /\ shutdown
  /\ acceptPc' = "done"
  /\ wg' = wg - 1
  /\ UNCHANGED <<mainPc, shutdown, listenerOpen, done, stopVia, acceptConn, dispatchPc,
                 cstate, clientVars, nread, hpc, fired, err, inv, out, closeCount, ended>>

\* select: default: the loop enters s.listener.Accept()
AcceptConnections_Default ==
  /\ acceptPc = "select"
  /\ ~shutdown
  /\ acceptPc' = "accept"
  /\ UNCHANGED <<serverVars, acceptConn, dispatchPc, cstate, clientVars, nread, hpc,
                 fired, err, inv, out, closeCount, ended>>

\* Accept returns a connection of the backlog (the oldest one)
AcceptConnections_Accept(c) ==
  /\ acceptPc = "accept"
  /\ listenerOpen
  /\ cstate[c] = "dialed"
  /\ \A d \in Conns : d < c => cstate[d] # "dialed"
  /\ cstate' = [cstate EXCEPT ![c] = "accepted"]
  /\ acceptConn' = c
  /\ acceptPc' = "send"
  /\ UNCHANGED <<serverVars, dispatchPc, clientVars, nread, hpc, fired, err, inv, out,
                 closeCount, ended>>

\* Accept returns an error because the listener is closed: continue
AcceptConnections_ErrClosed ==
  /\ acceptPc = "accept"
  /\ ~listenerOpen
  /\ acceptPc' = "select"
  /\ UNCHANGED <<serverVars, acceptConn, dispatchPc, cstate, clientVars, nread, hpc,
                 fired, err, inv, out, closeCount, ended>>

\* Accept returns a transient error while the listener is open: continue
AcceptConnections_ErrTransient ==
  /\ acceptPc = "accept"
  /\ listenerOpen
  /\ acceptPc' = "select"
  /\ UNCHANGED <<serverVars, acceptConn, dispatchPc, cstate, clientVars, nread, hpc,
                 fired, err, inv, out, closeCount, ended>>

\* ------------------------------------------------------ handleConnections
\* (mutant) the dispatch loop calls the handler instead of starting it with
\* go: it takes the next connection only when no handler is running
handleConnections_ReceiveSerial ==
  /\ acceptPc = "send"
  /\ dispatchPc = "select"
  /\ \A c \in Conns : hpc[c] \in {"none", "returned"}
  /\ acceptPc' = "select"
  /\ acceptConn' = 0
  /\ cstate' = [cstate EXCEPT ![acceptConn] = "session"]
  /\ hpc' = [hpc EXCEPT ![acceptConn] = "scan"]
  /\ UNCHANGED <<serverVars, dispatchPc, clientVars, nread, fired, err, inv, out,
                 closeCount, ended>>

\* s.connection is unbuffered: the send of AcceptConnections and the receive
\* of handleConnections are one step, and the receiver starts the handler
\* (context.WithTimeout arms the session timer as the handler starts).
handleConnections_Receive ==
  /\ acceptPc = "send"
  /\ dispatchPc = "select"
  /\ acceptPc' = "select"
  /\ acceptConn' = 0
  /\ cstate' = [cstate EXCEPT ![acceptConn] = "session"]
  /\ hpc' = [hpc EXCEPT ![acceptConn] = "scan"]
  /\ UNCHANGED <<serverVars, dispatchPc, clientVars, nread, fired, err, inv, out,
                 closeCount, ended>>

\* select: case <-s.shutdown: return (deferred s.wg.Done())
handleConnections_Shutdown ==
  /\ dispatchPc = "select"
  /\ shutdown
  /\ dispatchPc' = "done"
  /\ wg' = wg - 1
  /\ UNCHANGED <<mainPc, shutdown, listenerOpen, done, stopVia, acceptPc, acceptConn,
                 cstate, clientVars, nread, hpc, fired, err, inv, out, closeCount, ended>>

\* ------------------------------------------------------- handleConnection
\* The handler is blocked in scanner.Scan() at "scan".  Scan returning a line
\* and the select that follows are one step: nothing the handler does between
\* them is visible, and the select reads shutdown and ctx.Done() as they are
\* when it runs.  Of the ready cases of a select, any may be taken.
otherVars == <<serverVars, loopVars, clientVars>>

\* scanner.Scan() returns false (the client closed its end, or the read
\* failed): the loop ends and handleConnection returns
handleConnection_ScanEnd(c) ==
  /\ hpc[c] = "scan"
  /\ ~HasLine(c)
  /\ Return(c, "eof")
  /\ UNCHANGED <<otherVars, nread, fired, err, inv, out>>

\* a line is read; select: case <-s.shutdown: return
handleConnection_Shutdown(c) ==
  /\ hpc[c] = "scan"
  /\ HasLine(c)
  /\ shutdown
  /\ nread' = [nread EXCEPT ![c] = @ + 1]
  /\ Return(c, "shutdown")
  /\ UNCHANGED <<otherVars, fired, err, inv, out>>

\* a line is read; select: case <-ctx.Done(): s.handleTimeout(conn), whose
\* first write is the notice line
handleConnection_Timeout(c) ==
  /\ hpc[c] = "scan"
  /\ HasLine(c)
  /\ fired[c]
  /\ nread' = [nread EXCEPT ![c] = @ + 1]
  /\ ConnWrite(c, 0, "handler", TimeoutNotice)
  /\ hpc' = [hpc EXCEPT ![c] = "terminate"]
  /\ UNCHANGED <<otherVars, cstate, fired, err, inv, closeCount, ended>>

\* handleTimeout's second write, the TERMINATE line; then handleConnection returns
handleTimeout(c) ==
  /\ hpc[c] = "terminate"
  /\ ConnWrite(c, 0, "handler", TerminateMark)
  /\ Return(c, "timeout")
  /\ UNCHANGED <<otherVars, nread, fired, err, inv>>

\* (mutant) the select does not look at the deadline
SelectDefaultNoDeadline(c) ==
  /\ hpc[c] = "scan"
  /\ HasLine(c)
  /\ ~shutdown

\* the select falls to default (no case is ready)
SelectDefault(c) ==
  /\ hpc[c] = "scan"
  /\ HasLine(c)
  /\ ~shutdown
  /\ ~fired[c]

\* (mutant) the exit line is answered with an end-of-output marker
handleConnection_ExitAck(c) ==
  /\ SelectDefault(c)
  /\ NextLine(c) = ExitKeyword
  /\ nread' = [nread EXCEPT ![c] = @ + 1]
  /\ ConnWrite(c, CurNo(c), "handler", ErrEOFMarker)
  /\ Return(c, "exit")
  /\ UNCHANGED <<otherVars, fired, err, inv>>

\* default: command == "exit": return
handleConnection_Exit(c) ==
  /\ SelectDefault(c)
  /\ NextLine(c) = ExitKeyword
  /\ nread' = [nread EXCEPT ![c] = @ + 1]
  /\ Return(c, "exit")
  /\ UNCHANGED <<otherVars, fired, err, inv, out>>

\* default: executeCommand: StdoutPipe, Start succeeds, the copy goroutine is
\* started and the handler blocks in ulimitCmd.Wait()
executeCommand_Start(c) ==
  /\ SelectDefault(c)
  /\ NextLine(c) # ExitKeyword
  /\ nread' = [nread EXCEPT ![c] = @ + 1]
  /\ inv' = [inv EXCEPT ![c] = Append(@,
               [cmd |-> NextLine(c), pstate |-> "running",
                pipe |-> "", pipeOpen |-> TRUE, cpc |-> "read", cbuf |-> ""])]
  /\ hpc' = [hpc EXCEPT ![c] = "wait"]
  /\ UNCHANGED <<otherVars, cstate, fired, err, out, closeCount, ended>>

\* default: executeCommand: StdoutPipe or Start fails, the error is returned
executeCommand_StartFail(c) ==
  /\ SelectDefault(c)
  /\ NextLine(c) # ExitKeyword
  /\ nread' = [nread EXCEPT ![c] = @ + 1]
  /\ inv' = [inv EXCEPT ![c] = Append(@,
               [cmd |-> NextLine(c), pstate |-> "failed",
                pipe |-> "", pipeOpen |-> FALSE, cpc |-> "none", cbuf |-> ""])]
  /\ err' = [err EXCEPT ![c] = StartErrorText]
  /\ hpc' = [hpc EXCEPT ![c] = "errline"]
  /\ UNCHANGED <<otherVars, cstate, fired, out, closeCount, ended>>

\* ulimitCmd.Wait() returns once the subprocess has exited, and closes the
\* read end of the stdout pipe: what the copy goroutine has not read is lost
WaitReturns(c) ==
  /\ hpc[c] = "wait"
  /\ inv[c][CurNo(c)].pstate = "exited"
  /\ inv' = [inv EXCEPT ![c][CurNo(c)].pipeOpen = FALSE, ![c][CurNo(c)].pipe = ""]

\* Wait returns nil (exit status 0): conn.Write([]byte("\nEOF\n")), return
\* nil, and the handler scans again.  Between the return of Wait and this
\* write the handler does nothing another task can see, so they are one step.
executeCommand_WaitOk(c) ==
  /\ WaitReturns(c)
  /\ ExitStatus(inv[c][CurNo(c)].cmd) = 0
  /\ ConnWrite(c, CurNo(c), "handler", EOFMarker)
  /\ hpc' = [hpc EXCEPT ![c] = "scan"]
  /\ UNCHANGED <<otherVars, cstate, nread, fired, err, closeCount, ended>>

\* Wait returns an *exec.ExitError (non-zero exit): the error is returned
executeCommand_WaitErr(c) ==
  /\ WaitReturns(c)
  /\ ExitStatus(inv[c][CurNo(c)].cmd) # 0
  /\ err' = [err EXCEPT ![c] = ExitErrorText(inv[c][CurNo(c)].cmd)]
  /\ hpc' = [hpc EXCEPT ![c] = "errline"]
  /\ UNCHANGED <<otherVars, cstate, nread, fired, out, closeCount, ended>>

\* err != nil: conn.Write of the error line
handleConnection_ErrLine(c) ==
  /\ hpc[c] = "errline"
  /\ ConnWrite(c, CurNo(c), "handler", ErrPrefix \o err[c] \o "\n")
  /\ hpc' = [hpc EXCEPT ![c] = "erreof"]
  /\ UNCHANGED <<otherVars, cstate, nread, fired, err, inv, closeCount, ended>>

\* (mutant) a failed command ends the session: the handler returns after the
\* EOF line of the error
handleConnection_ErrEOFReturn(c) ==
  /\ hpc[c] = "erreof"
  /\ ConnWrite(c, CurNo(c), "handler", ErrEOFMarker)
  /\ err' = [err EXCEPT ![c] = ""]
  /\ Return(c, "error")
  /\ UNCHANGED <<otherVars, nread, fired, inv>>

\* err != nil: conn.Write([]byte("EOF\n")); the handler scans again
handleConnection_ErrEOF(c) ==
  /\ hpc[c] = "erreof"
  /\ ConnWrite(c, CurNo(c), "handler", ErrEOFMarker)
  /\ err' = [err EXCEPT ![c] = ""]
  /\ hpc' = [hpc EXCEPT ![c] = "scan"]
  /\ UNCHANGED <<otherVars, cstate, nread, fired, inv, closeCount, ended>>

\* the session timer of context.WithTimeout fires
Timer_Fire(c) ==
  /\ hpc[c] \notin {"none", "returned"}
  /\ ~fired[c]
  /\ fired' = [fired EXCEPT ![c] = TRUE]
  /\ UNCHANGED <<otherVars, cstate, nread, hpc, err, inv, out, closeCount, ended>>

\* ------------------------------------- the subprocess and the copy goroutine
sessUnchanged == <<otherVars, cstate, nread, hpc, fired, err, closeCount, ended>>

\* the subprocess runs to its end: its stdout is in the pipe, and it exits
Proc_Exit(c, k) ==
  /\ k \in 1..Len(inv[c])
  /\ inv[c][k].pstate = "running"
  /\ inv' = [inv EXCEPT ![c][k].pipe = Stdout(inv[c][k].cmd),
                        ![c][k].pstate = "exited"]
  /\ UNCHANGED <<sessUnchanged, out>>

\* io.Copy: a Read of the pipe returns what is in it
Copy_Read(c, k) ==
  /\ k \in 1..Len(inv[c])
  /\ inv[c][k].cpc = "read"
  /\ inv[c][k].pipeOpen
  /\ inv[c][k].pipe # ""
  /\ inv' = [inv EXCEPT ![c][k].cbuf = inv[c][k].pipe,
                        ![c][k].pipe = "",
                        ![c][k].cpc = "write"]
  /\ UNCHANGED <<sessUnchanged, out>>

\* io.Copy: the Write to conn of what was read.  On a closed conn the Write
\* returns an error: io.Copy returns it and the goroutine logs it and ends.
Copy_Write(c, k) ==
  /\ k \in 1..Len(inv[c])
  /\ inv[c][k].cpc = "write"
  /\ ConnWrite(c, k, "copy", inv[c][k].cbuf)
  /\ inv' = [inv EXCEPT ![c][k].cbuf = "",
                        ![c][k].cpc = IF closeCount[c] = 0 THEN "read" ELSE "failed"]
  /\ UNCHANGED sessUnchanged

\* ------------------------------------------------------------- the clients
connUnchanged == <<serverVars, loopVars, nread, hpc, fired, err, inv, out, closeCount,
                   ended>>

\* tls.Dial, once the server runs: the connection enters the listener's backlog
Client_Dial(c) ==
  /\ mainPc # "new"
  /\ cstate[c] = "idle"
  /\ \A d \in Conns : d < c => cstate[d] # "idle"
  /\ listenerOpen
  /\ cstate' = [cstate EXCEPT ![c] = "dialed"]
  /\ UNCHANGED <<connUnchanged, clientVars>>

\* the client sends one line.  The client of this repository sends a line
\* and then reads the response (client.go main), so it has at most one line
\* outstanding; the scanner reads a line only at "scan", so a line sent
\* while a command runs is read as one sent after it.
Client_Send(c, line, n, budget) ==
  /\ cstate[c] \notin {"idle", "closed"}
  /\ hpc[c] \in {"none", "scan"}
  /\ ~HasLine(c)
  /\ Sent(n) < budget
  /\ sentLog' = [sentLog EXCEPT ![c] = Append(@, line)]
  /\ UNCHANGED <<connUnchanged, cstate, cl>>

\* ----------------------------------------------- the client program, main
\* The client program of this repository talks on connection 1.  cl.pc is
\* the position of its main ("prompt": reading stdin, "recv": inside
\* ReceiveResponse, "exited"), cl.exitCode its exit status once exited,
\* cl.pos how many lines of the connection it has consumed, and cl.shown what
\* it has printed, one sequence of lines per command sent.
TheClient == 1

\* what a write on the connection is to reader.ReadString('\n'): its lines.
\* Of all the writes of the server only "\nEOF\n" is not exactly one line.
LinesOf(data) == IF data = EOFMarker THEN <<"\n", "EOF\n">> ELSE <<data>>

\* the lines the server has written on connection c so far, in order
RECURSIVE LinesOfChunks(_)
LinesOfChunks(chunks) ==
  IF chunks = << >> THEN << >>
  ELSE LinesOf(Head(chunks).data) \o LinesOfChunks(Tail(chunks))

Wire(c) == LinesOfChunks(out[c])

\* main: scanner.Scan() returns the line the user typed, SendCommand writes
\* it, and main returns (exit status 0) if it was "exit" and calls
\* ReceiveResponse otherwise.  tls.Dial has returned, so the handshake is
\* done: the session handler has started reading.  A write on a connection
\* the server has closed may fail with "broken pipe": SendCommand panics,
\* recovers and calls os.Exit(1); it may as well return nil or another
\* error, and main goes on.
main_SendCommand(line, budget) ==
  /\ cl.pc = "prompt"
  /\ cstate[TheClient] \in {"session", "closed"}
  /\ Len(sentLog[TheClient]) < budget
  /\ \/ /\ sentLog' = [sentLog EXCEPT ![TheClient] = Append(@, line)]
        /\ cl' = IF line = ExitKeyword
                   THEN [cl EXCEPT !.pc = "exited", !.exitCode = 0]
                   ELSE [cl EXCEPT !.pc = "recv", !.shown = Append(@, << >>)]
     \/ /\ cstate[TheClient] = "closed"
        /\ sentLog' = sentLog
        /\ cl' = [cl EXCEPT !.pc = "exited", !.exitCode = 1]
  /\ UNCHANGED <<connUnchanged, cstate>>

\* (mutant) ReceiveResponse prints the TERMINATE line like any other line
ReceiveResponse_ReadLinePrintsAll ==
  /\ cl.pc = "recv"
  /\ cl.pos < Len(Wire(TheClient))
  /\ LET line == Wire(TheClient)[cl.pos + 1]
     IN  IF line = "EOF\n"
           THEN \E p \in (cl.pos + 1)..Len(Wire(TheClient)) :
                  cl' = [cl EXCEPT !.pc = "prompt", !.pos = p]
           ELSE cl' = [cl EXCEPT !.pos = @ + 1,
                                 !.shown[Len(cl.shown)] = Append(@, line)]
  /\ UNCHANGED <<connUnchanged, cstate, sentLog>>

\* ReceiveResponse: reader.ReadString('\n') returns a line.  "EOF\n" ends
\* the response: the loop breaks and main prompts again; the bufio.Reader is
\* made anew by every ReceiveResponse, so what it had read ahead of the EOF
\* line (anything between nothing and all that had arrived) is dropped with
\* it.  "TERMINATE\n": os.Exit(9).  Any other line is printed.
ReceiveResponse_ReadLine ==
  /\ cl.pc = "recv"
  /\ cl.pos < Len(Wire(TheClient))
  /\ LET line == Wire(TheClient)[cl.pos + 1]
     IN  CASE line = "EOF\n" ->
                \E p \in (cl.pos + 1)..Len(Wire(TheClient)) :
                  cl' = [cl EXCEPT !.pc = "prompt", !.pos = p]
           [] line = "TERMINATE\n" ->
                cl' = [cl EXCEPT !.pc = "exited", !.exitCode = 9, !.pos = @ + 1]
           [] OTHER ->
                cl' = [cl EXCEPT !.pos = @ + 1,
                                 !.shown[Len(cl.shown)] = Append(@, line)]
  /\ UNCHANGED <<connUnchanged, cstate, sentLog>>

\* ReceiveResponse: ReadString returns io.EOF, the server has closed the
\* connection and every line has been consumed: the loop breaks
ReceiveResponse_ReadEnd ==
  /\ cl.pc = "recv"
  /\ cl.pos = Len(Wire(TheClient))
  /\ cstate[TheClient] = "closed"
  /\ cl' = [cl EXCEPT !.pc = "prompt"]
  /\ UNCHANGED <<connUnchanged, cstate, sentLog>>

\* ---------------------------------------------------------- specification
\* the steps of the server on the connections 1..n
ServerStep(n) ==
  \/ Start
  \/ Stop_CloseShutdown
  \/ Stop_CloseListener
  \/ Stop_Waiter
  \/ Stop_ReturnDone
  \/ Stop_ReturnTimeout
  \/ AcceptConnections_Shutdown
  \/ AcceptConnections_Default
  \/ \E c \in 1..n : AcceptConnections_Accept(c)
  \/ AcceptConnections_ErrClosed
  \/ AcceptConnections_ErrTransient
  \/ handleConnections_Receive
  \/ handleConnections_Shutdown
  \/ \E c \in 1..n : handleConnection_ScanEnd(c)
  \/ \E c \in 1..n : handleConnection_Shutdown(c)
  \/ \E c \in 1..n : handleConnection_Timeout(c)
  \/ \E c \in 1..n : handleTimeout(c)
  \/ \E c \in 1..n : handleConnection_Exit(c)
  \/ \E c \in 1..n : executeCommand_Start(c)
  \/ \E c \in 1..n : executeCommand_StartFail(c)
  \/ \E c \in 1..n : executeCommand_WaitOk(c)
  \/ \E c \in 1..n : executeCommand_WaitErr(c)
  \/ \E c \in 1..n : handleConnection_ErrLine(c)
  \/ \E c \in 1..n : handleConnection_ErrEOF(c)
  \/ \E c \in 1..n : Timer_Fire(c)
  \/ \E c \in 1..n : \E k \in 1..Len(inv[c]) : Proc_Exit(c, k)
  \/ \E c \in 1..n : \E k \in 1..Len(inv[c]) : Copy_Read(c, k)
  \/ \E c \in 1..n : \E k \in 1..Len(inv[c]) : Copy_Write(c, k)

\* the steps of the server with the clients 1..n, which send at most budget
\* lines in total
Step(n, budget) ==
  \/ ServerStep(n)
  \/ \E c \in 1..n : Client_Dial(c)
  \/ \E c \in 1..n : \E line \in Lines : Client_Send(c, line, n, budget)

Next == Step(MaxConns, MaxLines)

Spec == Init /\ [][Next]_vars

\* Fairness for the server with the clients 1..n: a goroutine that can take
\* a step takes one (the Go scheduler), a subprocess runs to its end, and an
\* armed timer fires.  Nothing is assumed of the clients, of transient accept
\* errors and of the OS signal: a client may stay silent for ever, and Stop
\* may never be called.
MainSteps == Start \/ Stop_CloseListener \/ Stop_ReturnDone \/ Stop_ReturnTimeout

AcceptSteps(n) ==
  \/ AcceptConnections_Shutdown
  \/ AcceptConnections_Default
  \/ \E c \in 1..n : AcceptConnections_Accept(c)
  \/ AcceptConnections_ErrClosed

DispatchSteps == handleConnections_Receive \/ handleConnections_Shutdown

HandlerSteps(c) ==
  \/ handleConnection_Shutdown(c)
  \/ handleConnection_Timeout(c)
  \/ handleTimeout(c)
  \/ handleConnection_Exit(c)
  \/ executeCommand_Start(c)
  \/ executeCommand_StartFail(c)
  \/ executeCommand_WaitOk(c)
  \/ executeCommand_WaitErr(c)
  \/ handleConnection_ErrLine(c)
  \/ handleConnection_ErrEOF(c)

ProcSteps(c) == \E k \in 1..Len(inv[c]) : Proc_Exit(c, k)

CopySteps(c) == \E k \in 1..Len(inv[c]) : Copy_Read(c, k) \/ Copy_Write(c, k)

Fairness(n) ==
  /\ WF_vars(MainSteps)
  /\ WF_vars(Stop_Waiter)
  /\ WF_vars(AcceptSteps(n))
  /\ WF_vars(DispatchSteps)
  /\ \A c \in 1..n :
       /\ WF_vars(HandlerSteps(c))
       /\ WF_vars(Timer_Fire(c))
       /\ WF_vars(ProcSteps(c))
       /\ WF_vars(CopySteps(c))

\* The server with a single client, under that fairness.
SingleNext == Step(1, SingleLines)

SingleSpec == Init /\ [][SingleNext]_vars /\ Fairness(1)

\* The server with a single client and a caller that may invoke Stop again.
RestopNext == SingleNext \/ Stop_Again

RestopSpec == Init /\ [][RestopNext]_vars /\ Fairness(1)

\* The server with the client program of this repository on connection 1.
ClientNext ==
  \/ ServerStep(TheClient)
  \/ Client_Dial(TheClient)
  \/ \E line \in Lines : main_SendCommand(line, ClientLines)
  \/ ReceiveResponse_ReadLine
  \/ ReceiveResponse_ReadEnd

ClientSpec == Init /\ [][ClientNext]_vars

\* The same, with a user who may also run a command that prints the line EOF.
MarkerNext ==
  \/ ServerStep(TheClient)
  \/ Client_Dial(TheClient)
  \/ \E line \in Lines \cup MarkerCommands : main_SendCommand(line, ClientLines)
  \/ ReceiveResponse_ReadLine
  \/ ReceiveResponse_ReadEnd

MarkerSpec == Init /\ [][MarkerNext]_vars

\* ------------------------------------------------------------------ claims
\* what was written to conn c for command k (k = 0: for the session), in order
ChunksOf(c, k) == SelectSeq(out[c], LAMBDA ch : ch.k = k)

RECURSIVE Bytes(_)
Bytes(chunks) == IF chunks = << >> THEN "" ELSE Head(chunks).data \o Bytes(Tail(chunks))

IsEOFLine(ch) == ch.w = "handler" /\ ch.data \in {EOFMarker, ErrEOFMarker}
IsTerminate(ch) == ch.w = "handler" /\ ch.data = TerminateMark
Count(seq, P(_)) == Len(SelectSeq(seq, P))

Active(c) == hpc[c] \notin {"none", "returned"}
LastReadIsExit(c) == nread[c] > 0 /\ sentLog[c][nread[c]] = ExitKeyword

\* C7: Stop always terminates.  Once Stop has closed the shutdown channel it
\* returns, and it returns through <-done only when both tracked loops have
\* finished and otherwise through the grace timer, whatever the loops and the
\* session handlers are doing.
C7_StopTerminates ==
  /\ (mainPc = "stop_listener") ~> (mainPc = "returned")
  /\ [](mainPc = "returned" =>
          \/ stopVia = "done" /\ wg = 0 /\ acceptPc = "done" /\ dispatchPc = "done"
          \/ stopVia = "timeout")

\* Stop has returned on the grace timer while the accept loop is still blocked
\* on the handoff channel
C7_Witness ==
  mainPc = "returned" /\ stopVia = "timeout" /\ acceptPc = "send" /\ wg > 0

\* C10: every session handler closes its connection exactly once, whichever
\* return it takes, and the connection is closed once the handler has returned.
C10_ClosedExactlyOnce ==
  \A c \in Conns :
    /\ closeCount[c] <= 1
    /\ hpc[c] = "returned" => closeCount[c] = 1 /\ cstate[c] = "closed"
    /\ hpc[c] # "returned" => closeCount[c] = 0 /\ cstate[c] # "closed"

\* a handler that has run a command and then returned on the timeout branch
C10_Witness ==
  \E c \in Conns :
    hpc[c] = "returned" /\ ended[c] = "timeout" /\ Len(inv[c]) > 0 /\ closeCount[c] = 1

\* the handler of c has read "exit" as its last line: the session goes on no
\* further, the executor was not invoked for that line (every line read
\* before it started one invocation) and no EOF line was written for it
\* (every invocation has at most one)
ExitEndsSession(c) ==
  LastReadIsExit(c) =>
    /\ hpc[c] \in {"terminate", "returned"}
    /\ Len(inv[c]) = nread[c] - 1
    /\ Count(out[c], IsEOFLine) <= nread[c] - 1

TimedOutAndClosed(c) ==
  /\ hpc[c] = "returned"
  /\ ended[c] = "timeout" =>
       /\ Len(ChunksOf(c, 0)) = 2
       /\ ChunksOf(c, 0)[1].data = TimeoutNotice
       /\ ChunksOf(c, 0)[2].data = TerminateMark

C1_DeadlineEndsSession ==
  \A c \in Conns : (fired[c] /\ Active(c)) ~> TimedOutAndClosed(c)

\* C8: once Stop has closed the shutdown channel and the listener, the accept
\* loop and the dispatch loop both exit: the WaitGroup counter reaches zero.
C8_LoopsExit ==
  (shutdown /\ ~listenerOpen) ~> (wg = 0 /\ acceptPc = "done" /\ dispatchPc = "done")

\* C9: the shutdown signal is never lowered, and every active session handler
\* eventually observes it and closes its connection, whether or not its client
\* sends another line.  Read in the claim's favour: any return of the handler
\* counts as having observed it.
C9_ShutdownReachesHandlers ==
  /\ [][shutdown => shutdown']_vars
  /\ \A c \in Conns : (shutdown /\ Active(c)) ~> (hpc[c] = "returned")

\* the handler is done with invocation k of connection c
Finished(c, k) ==
  k < Len(inv[c]) \/ (k = Len(inv[c]) /\ hpc[c] \notin {"wait", "errline", "erreof"})

\* the copy task of invocation k holds no bytes it has yet to write
Quiet(c, k) == inv[c][k].cpc # "write"

Last(seq) == seq[Len(seq)]

\* C2: for every command that exits with status 0, what is written to the
\* connection for it is exactly its stdout followed by the line EOF, and no
\* error line.  Judged once the handler is done with the command and the copy
\* task has nothing left to write.
C2_SuccessBytesExact ==
  \A c \in Conns : \A k \in 1..Len(inv[c]) :
    (/\ Finished(c, k)
     /\ Quiet(c, k)
     /\ inv[c][k].pstate = "exited"
     /\ ExitStatus(inv[c][k].cmd) = 0)
    => /\ Bytes(ChunksOf(c, k)) = Stdout(inv[c][k].cmd) \o "EOF\n"
       /\ \A i \in 1..Len(ChunksOf(c, k)) :
            ChunksOf(c, k)[i].data # ErrPrefix \o ExitErrorText(inv[c][k].cmd) \o "\n"

\* C3: for every command that exits non-zero, the handler writes exactly one
\* error line and then exactly one EOF line, and the EOF line is the last
\* thing written for that command.
C3_FailureErrorThenEOF ==
  \A c \in Conns : \A k \in 1..Len(inv[c]) :
    (/\ Finished(c, k)
     /\ Quiet(c, k)
     /\ inv[c][k].pstate = "exited"
     /\ ExitStatus(inv[c][k].cmd) # 0)
    => LET hs == SelectSeq(ChunksOf(c, k), LAMBDA ch : ch.w = "handler")
       IN  /\ Len(hs) = 2
           /\ hs[1].data = ErrPrefix \o ExitErrorText(inv[c][k].cmd) \o "\n"
           /\ hs[2].data = ErrEOFMarker
           /\ Last(ChunksOf(c, k)) = hs[2]

\* C4: within one session the commands run in the order their lines were
\* received, no two of them at the same time, and command n+1 is started only
\* after the subprocess of command n has exited and its response has been
\* written.
C4_CommandsSequential ==
  \A c \in Conns :
    /\ \A k \in 1..Len(inv[c]) : inv[c][k].cmd = sentLog[c][k]
    /\ Cardinality({k \in 1..Len(inv[c]) : inv[c][k].pstate = "running"}) <= 1
    /\ \A k \in 1..Len(inv[c]) :
         k < Len(inv[c]) => inv[c][k].pstate # "running" /\ Quiet(c, k)

\* C6: once Stop has closed the shutdown channel, no new connection is
\* accepted and no new session handler is started.
C6_NothingNewAfterStop ==
  [][shutdown =>
       \A c \in Conns :
         /\ cstate'[c] = "accepted" => cstate[c] = "accepted"
         /\ hpc[c] = "none" => hpc'[c] = "none"]_vars

\* invocation k of connection c failed: it could not be spawned, or its
\* subprocess exited with a non-zero status
Failed(c, k) ==
  \/ inv[c][k].pstate = "failed"
  \/ inv[c][k].pstate = "exited" /\ ExitStatus(inv[c][k].cmd) # 0

\* C11: a command that fails (spawn failure or non-zero exit) never ends the
\* session.  While the handler reports the failure it does not return and
\* does not close the connection: from the error line it goes to the EOF line
\* and from the EOF line back to reading; and a handler that is back at
\* reading with a command line to read, no shutdown and no elapsed deadline,
\* can start that command.
C11_FailureKeepsSession ==
  /\ [][\A c \in Conns :
          /\ hpc[c] = "errline" =>
                hpc'[c] \in {"errline", "erreof"} /\ closeCount'[c] = 0
          /\ hpc[c] = "erreof" =>
                hpc'[c] \in {"erreof", "scan"} /\ closeCount'[c] = 0
          /\ (Len(inv'[c]) > Len(inv[c]) /\ Last(inv'[c]).pstate = "failed") =>
                hpc'[c] = "errline" /\ closeCount'[c] = 0]_vars
  /\ [](\A c \in Conns :
          (/\ hpc[c] = "scan"
           /\ Len(inv[c]) > 0
           /\ Failed(c, Len(inv[c]))
           /\ SelectDefault(c)
           /\ NextLine(c) # ExitKeyword) => ENABLED executeCommand_Start(c))

\* after a command that failed, the next command of the same session has
\* been started, has exited with status 0 and has got its EOF marker
C11_Witness ==
  \E c \in Conns :
    /\ Len(inv[c]) = 2
    /\ Failed(c, 1)
    /\ inv[c][2].pstate = "exited"
    /\ ExitStatus(inv[c][2].cmd) = 0
    /\ hpc[c] = "scan"
    /\ \E i \in 1..Len(out[c]) : out[c][i].k = 2 /\ out[c][i].data = EOFMarker

Executing(c) ==
  hpc[c] = "wait" /\ inv[c][CurNo(c)].pstate = "running"

\* C13: sessions run in parallel.  The dispatch loop never waits for a
\* handler: whenever the accept loop offers a connection and the dispatch
\* loop is at its select, the handoff can happen, whatever the handlers are
\* doing.  And no session waits for another one's command: a handler whose
\* subprocess has exited can leave Wait, and a handler that has a command
\* line to read can start it, whatever the other sessions are executing.
C13_SessionsParallel ==
  /\ (acceptPc = "send" /\ dispatchPc = "select") => ENABLED handleConnections_Receive
  /\ \A c \in Conns :
       /\ (hpc[c] = "wait" /\ inv[c][CurNo(c)].pstate = "exited") =>
             ENABLED (executeCommand_WaitOk(c) \/ executeCommand_WaitErr(c))
       /\ (SelectDefault(c) /\ NextLine(c) # ExitKeyword) =>
             ENABLED executeCommand_Start(c)
       /\ Executing(c) => ENABLED Proc_Exit(c, CurNo(c))

\* two different sessions are both executing a command
C13_Witness ==
  \E c, d \in Conns : c # d /\ Executing(c) /\ Executing(d)

\* C14: the client program exits with status 9 whenever it reads a TERMINATE
\* line while receiving a response, and only then; an EOF line ends the
\* response and main goes back to its prompt; and the client exits with
\* status 0 once it has sent "exit", and only then.
C14_ClientExits ==
  [][LET wire  == Wire(TheClient)
         reads == cl.pc = "recv" /\ cl'.pos > cl.pos
         exits == cl.pc # "exited" /\ cl'.pc = "exited"
         sends == Len(sentLog'[TheClient]) > Len(sentLog[TheClient])
     IN  /\ (reads /\ wire[cl.pos + 1] = TerminateMark) => (exits /\ cl'.exitCode = 9)
         /\ (reads /\ wire[cl.pos + 1] = ErrEOFMarker) => cl'.pc = "prompt"
         /\ (sends /\ Last(sentLog'[TheClient]) = ExitKeyword) =>
               (exits /\ cl'.exitCode = 0)
         /\ (exits /\ cl'.exitCode = 9) => (reads /\ wire[cl.pos + 1] = TerminateMark)
         /\ (exits /\ cl'.exitCode = 0) =>
               (sends /\ Last(sentLog'[TheClient]) = ExitKeyword)]_vars

\* the client has shown the response of a first command, which an EOF line
\* ended, and has exited with status 9 on the TERMINATE line that answered
\* its second
C14_Witness ==
  /\ cl.pc = "exited"
  /\ cl.exitCode = 9
  /\ Len(cl.shown) = 2
  /\ cl.shown[1] # << >>

\* C15: the copy task of a command writes to the connection only while the
\* handler has not yet written that command's EOF marker or error line:
\* never after either of them, and never after the next command has started.
C15_CopyBeforeMarker ==
  [][\A c \in Conns :
       (Len(out'[c]) > Len(out[c]) /\ Last(out'[c]).w = "copy") =>
         /\ Last(out'[c]).k = CurNo(c)
         /\ hpc[c] \in {"wait", "errline"}]_vars

\* the writes for command k among the writes ws of one connection
ChunksIn(ws, k) == SelectSeq(ws, LAMBDA ch : ch.k = k)
CopiedIn(ws, k) == SelectSeq(ws, LAMBDA ch : ch.k = k /\ ch.w = "copy")

\* C16: if the session deadline fires while a command is executing, the
\* command still runs to completion and its full response, the EOF marker
\* included, is written: when the handler goes back to reading, with the
\* deadline elapsed, the session is open, nothing of the timeout has been
\* written, the stdout of the command has been relayed in full and the EOF
\* line is the last thing written for it.  The timeout is acted on only once
\* the next line has been read: the notice is written in the step that reads
\* a line.
C16_DeadlineWaitsForCommand ==
  [][\A c \in Conns :
       /\ (fired[c] /\ hpc[c] \in {"wait", "erreof"} /\ hpc'[c] = "scan") =>
            LET k == CurNo(c)
            IN  /\ closeCount'[c] = 0
                /\ ChunksIn(out'[c], 0) = << >>
                /\ IsEOFLine(Last(ChunksIn(out'[c], k)))
                /\ inv[c][k].pstate = "exited" =>
                     Bytes(CopiedIn(out'[c], k)) = Stdout(inv[c][k].cmd)
       /\ (fired[c] /\ hpc[c] \in {"wait", "errline", "erreof"}) =>
            hpc'[c] \in {"wait", "errline", "erreof", "scan"}
       /\ (ChunksIn(out[c], 0) = << >> /\ ChunksIn(out'[c], 0) # << >>) =>
            hpc[c] = "scan" /\ nread'[c] = nread[c] + 1]_vars

\* C17: the session deadline is a one-shot timer that is never re-armed.
\* Once it has fired it stays fired and no further command is started on that
\* session; the step that reads the next line, whatever the line, takes the
\* handler to the closing of the session and writes no EOF line, none is
\* written after it, and the handler then closes the session.
C17_DeadlineOneShot ==
  /\ [][\A c \in Conns : fired[c] =>
          /\ fired'[c]
          /\ Len(inv'[c]) = Len(inv[c])
          /\ (nread'[c] # nread[c] \/ hpc[c] \in {"terminate", "returned"}) =>
               /\ hpc'[c] \in {"terminate", "returned"}
               /\ Count(out'[c], IsEOFLine) = Count(out[c], IsEOFLine)]_vars
  /\ \A c \in Conns : (fired[c] /\ hpc[c] = "terminate") ~> (hpc[c] = "returned")

\* after a first command, the deadline has elapsed, the client has sent a
\* second command line and the handler has read it, has not executed it and
\* has closed the session on the timeout branch
C17_Witness ==
  \E c \in Conns :
    /\ fired[c]
    /\ nread[c] = 2
    /\ sentLog[c][2] \in Commands
    /\ Len(inv[c]) = 1
    /\ ended[c] = "timeout"
    /\ cstate[c] = "closed"

\* C18: every connection the accept loop has accepted is eventually handed
\* to a session handler, also when Stop runs meanwhile: none stays with the
\* accept loop, undelivered and open.  (That the handler then closes it is
\* left out, in the claim's favour.)
C18_AcceptedIsHandedOver ==
  \A c \in Conns : (cstate[c] = "accepted") ~> (hpc[c] # "none")

\* what the server has written for command n of the client's session, as
\* lines, without the terminator line (the handler's "EOF\n")
RECURSIVE BodyLines(_)
BodyLines(chunks) ==
  IF chunks = << >> THEN << >>
  ELSE (IF IsEOFLine(Head(chunks))
          THEN SubSeq(LinesOf(Head(chunks).data), 1, Len(LinesOf(Head(chunks).data)) - 1)
          ELSE LinesOf(Head(chunks).data))
       \o BodyLines(Tail(chunks))

\* the client is through with the response of its command n
Received(n) == n < Len(cl.shown) \/ (n = Len(cl.shown) /\ cl.pc = "prompt")

\* the server has relayed all of the stdout of command n of connection c
\* ahead of what the handler wrote for it, the terminator last
InOrder(c, n) ==
  /\ Finished(c, n)
  /\ Quiet(c, n)
  /\ Bytes(CopiedIn(out[c], n)) =
       (IF inv[c][n].pstate = "exited" THEN Stdout(inv[c][n].cmd) ELSE "")
  /\ \A i, j \in 1..Len(ChunksOf(c, n)) :
       (ChunksOf(c, n)[i].w = "handler" /\ ChunksOf(c, n)[j].w = "copy") => j < i
  /\ IsEOFLine(Last(ChunksOf(c, n)))

\* C19: client and server stay in step.  ReceiveResponse stops at the
\* terminator line the server wrote for the command, so what the client has
\* shown for command n is all and only the lines of the response to command
\* n, whatever the command prints, a line EOF included.  Judged, in the
\* claim's favour, only where the server relayed the stdout of that command
\* and of every command before it in full and ahead of the terminator.
C19_ClientInStep ==
  \A n \in 1..Len(cl.shown) :
    (/\ Received(n)
     /\ n <= Len(inv[TheClient])
     /\ \A m \in 1..n : InOrder(TheClient, m)) =>
      cl.shown[n] = BodyLines(ChunksOf(TheClient, n))

\* C20: no bytes are written to a connection after its session handler has
\* closed it.  Once the handler has returned, nothing is added to what the
\* connection has accepted, also when the copy task of a finished command
\* calls Write after the return: the call fails on the closed connection.
C20_NoBytesAfterClose ==
  [][\A c \in Conns : hpc[c] = "returned" => out'[c] = out[c]]_vars

\* the copy task of a command has called Write after the handler had
\* returned, and the call has failed
C20_Witness ==
  \E c \in Conns : \E k \in 1..Len(inv[c]) :
    hpc[c] = "returned" /\ inv[c][k].cpc = "failed"

TypeOK ==
  /\ wg \in 0..2
  /\ \A c \in Conns : closeCount[c] \in 0..1

====
